---- MODULE Spec2Model ----
(***************************************************************************)
(* Hotel Nico analytics: the BookingTracker (the spreadsheet-backed        *)
(* booking store) and the AnalyticsEngine that aggregates its query        *)
(* results into daily reports, trends and period summaries.                *)
(*                                                                         *)
(* Dates are proleptic Gregorian ordinals (datetime.date.toordinal()).     *)
(* Money amounts are whole rupees; quotients (averages, percentages) are   *)
(* exact fractions [n, d] in lowest terms.                                 *)
(* A sheet is the sequence of its data rows, in sheet order.  A flag cell  *)
(* holds the text the sheet gives back on a read: "" for a blank cell,     *)
(* "TRUE" / "FALSE" for a cell a boolean was written to.                   *)
(***************************************************************************)
EXTENDS Integers, Sequences, FiniteSets, TLC

VARIABLES bookings_sheet, rooms_sheet, expenses_sheet, feedback_sheet, today, ret

vars == <<bookings_sheet, rooms_sheet, expenses_sheet, feedback_sheet, today, ret>>

sheets == <<bookings_sheet, rooms_sheet, expenses_sheet, feedback_sheet>>

----------------------------------------------------------------------------
(* Bounds of the model *)

MaxDay == 3
MaxAppends == 2
MaxWindow == 3
MaxOcc == 12
MaxCap == 12
MaxCalendarDay == 800
MaxInHouse == 12
MaxFeedback == 3
MaxLimit == 4

(* Program constants *)

TOTAL_ROOMS == 10
LOW_OCCUPANCY_THRESHOLD == 60
FEEDBACK_LIMIT == 100
LOCAL_RATE == 799
STANDARD_RATE == 1500

----------------------------------------------------------------------------
(* datetime.date arithmetic *)

IsLeap(y) == y % 4 = 0 /\ (y % 100 # 0 \/ y % 400 = 0)

DaysInMonth(y, m) ==
    IF m = 2 THEN (IF IsLeap(y) THEN 29 ELSE 28)
    ELSE IF m \in {4, 6, 9, 11} THEN 30 ELSE 31

DaysBeforeYear(y) ==
    LET p == y - 1 IN p * 365 + (p \div 4) - (p \div 100) + (p \div 400)

RECURSIVE DaysBeforeMonth(_, _)
DaysBeforeMonth(y, m) ==
    IF m = 1 THEN 0 ELSE DaysBeforeMonth(y, m - 1) + DaysInMonth(y, m - 1)

\* date(y, m, d) as an ordinal
date(y, m, d) == DaysBeforeYear(y) + DaysBeforeMonth(y, m) + d

Years == 2023..2026

year(n) == CHOOSE y \in Years : DaysBeforeYear(y) < n /\ n <= DaysBeforeYear(y + 1)

month(n) ==
    LET y == year(n)
    IN  CHOOSE m \in 1..12 :
            /\ date(y, m, 1) <= n
            /\ n < date(y, m, 1) + DaysInMonth(y, m)

\* date.weekday(): Monday is 0
weekday(n) == (n + 6) % 7

\* The first day the model's records are dated: Monday 30 December 2024
Epoch == date(2024, 12, 30)

Days == {Epoch + k : k \in 0..MaxDay}

----------------------------------------------------------------------------
(* Exact fractions *)

RECURSIVE GCD(_, _)
GCD(a, b) == IF b = 0 THEN a ELSE GCD(b, a % b)

Abs(x) == IF x < 0 THEN 0 - x ELSE x

Frac(n, d) ==
    LET g == GCD(Abs(n), d) IN [n |-> n \div g, d |-> d \div g]

Zero == [n |-> 0, d |-> 1]

FracLess(p, q) == p.n * q.d < q.n * p.d

----------------------------------------------------------------------------
(* Sequence helpers *)

\* sum(s[lo..hi]), halving the range
RECURSIVE SumRange(_, _, _)
SumRange(s, lo, hi) ==
    IF lo > hi THEN 0
    ELSE IF lo = hi THEN s[lo]
    ELSE LET mid == (lo + hi) \div 2
         IN  SumRange(s, lo, mid) + SumRange(s, mid + 1, hi)

SumSeq(s) == SumRange(s, 1, Len(s))

Map(s, Op(_)) == [i \in 1..Len(s) |-> Op(s[i])]

Min(a, b) == IF a < b THEN a ELSE b

----------------------------------------------------------------------------
(* What the code reads back from a sheet cell *)

\* A boolean written to a cell reads back as its text
BoolCell(b) == IF b THEN "TRUE" ELSE "FALSE"

\* Python truth value of a cell: only the blank cell '' is false
Truthy(cell) == cell # ""

----------------------------------------------------------------------------
(* Booking objects handed to add_booking, and the rows they become *)

Booking(id, cat, room, src, ci, co, rate, total, adv, bal, cin, cout) ==
    [booking_id |-> id, category |-> cat, room_number |-> room, booking_source |-> src,
     check_in_date |-> ci, check_out_date |-> co, room_rate |-> rate,
     total_amount |-> total, advance_paid |-> adv, balance_amount |-> bal,
     checked_in |-> cin, checked_out |-> cout]

BookingInputs ==
    { Booking(1, "LOCAL", 1, "Direct", Epoch + 1, Epoch + 3, 150, 300, 100, 200,
              FALSE, FALSE),
      Booking(2, "TOURIST", 2, "WhatsApp", Epoch + 2, Epoch + 3, 500, 500, 500, 0,
              TRUE, FALSE) }

\* The row add_booking appends (the columns the aggregations read)
BookingRow(b) ==
    [BookingID |-> b.booking_id, Category |-> b.category,
     RoomNumber |-> b.room_number,
     CheckIn |-> b.check_in_date, CheckOut |-> b.check_out_date,
     Rate |-> b.room_rate, Total |-> b.total_amount,
     Advance |-> b.advance_paid, Balance |-> b.balance_amount,
     Source |-> b.booking_source,
     CheckedIn |-> BoolCell(b.checked_in),
     CheckedOut |-> BoolCell(b.checked_out)]

\* Rows of an established register, typed into the spreadsheet by hand with
\* the two flag columns left blank: five stays [Epoch+1, Epoch+4), four stays
\* [Epoch+2, Epoch+3) and two stays [Epoch+2, Epoch+4); one row more than
\* there are rooms.
LegacyRow(i) ==
    LET ci == IF i <= 5 THEN Epoch + 1 ELSE Epoch + 2
        co == IF i \in 6..9 THEN Epoch + 3 ELSE Epoch + 4
        rate == 100 * (1 + (i % 3))
        total == rate * (co - ci)
        adv == IF i % 2 = 0 THEN total ELSE 100
    IN  [BookingID |-> 100 + i,
         Category |-> IF i % 3 = 0 THEN "" ELSE IF i % 3 = 1 THEN "LOCAL" ELSE "TOURIST",
         RoomNumber |-> ((i - 1) % TOTAL_ROOMS) + 1,
         CheckIn |-> ci, CheckOut |-> co,
         Rate |-> rate, Total |-> total, Advance |-> adv, Balance |-> total - adv,
         Source |-> IF i % 2 = 0 THEN "" ELSE "Direct",
         CheckedIn |-> "", CheckedOut |-> ""]

LegacyBookings == [i \in 1..(TOTAL_ROOMS + 1) |-> LegacyRow(i)]

\* A row of the rooms sheet
RoomRow(room_number, status) == [RoomNumber |-> room_number, Status |-> status]

\* The rooms of an established register: most AVAILABLE, some typed
\* "Available", every fifth under MAINTENANCE
LegacyRooms ==
    [i \in 1..TOTAL_ROOMS |->
        RoomRow(i, IF i % 5 = 0 THEN "MAINTENANCE"
                   ELSE IF i % 5 = 4 THEN "Available" ELSE "AVAILABLE")]

ExpenseInputs ==
    { [date |-> Epoch + 1, amount |-> 5000], [date |-> Epoch + 2, amount |-> 50] }

ExpenseRow(e) == [Date |-> e.date, Amount |-> e.amount]

FeedbackInputs ==
    { [date |-> Epoch + 1, rating |-> 2], [date |-> Epoch + 2, rating |-> 5] }

FeedbackRow(f) == [Date |-> f.date, Rating |-> f.rating]

\* An established register's feedback: as many rows as the report asks the
\* store for, all dated Epoch + 2
LegacyFeedback == [i \in 1..FEEDBACK_LIMIT |-> [Date |-> Epoch + 2, Rating |-> 4]]

----------------------------------------------------------------------------
(* BookingTracker queries.  `fail` says that the sheet read raised (the    *)
(* store could not be reached); every query catches the exception, logs    *)
(* it and returns the empty list.                                          *)

NotFlagged(cell) == ~Truthy(cell)

IsActive(record, target_date) ==
    /\ record.CheckIn <= target_date
    /\ target_date < record.CheckOut
    /\ NotFlagged(record.CheckedOut)

get_active_bookings(target_date, fail) ==
    IF fail THEN << >>
    ELSE SelectSeq(bookings_sheet, LAMBDA record : IsActive(record, target_date))

get_todays_checkins(fail) ==
    IF fail THEN << >>
    ELSE SelectSeq(bookings_sheet,
                   LAMBDA record : record.CheckIn = today /\ NotFlagged(record.CheckedIn))

get_todays_checkouts(fail) ==
    IF fail THEN << >>
    ELSE SelectSeq(bookings_sheet,
                   LAMBDA record : record.CheckOut = today /\ NotFlagged(record.CheckedOut))

\* failRooms: the rooms sheet read raises (caught here, [] returned);
\* failBookings: the bookings read inside get_active_bookings raises
get_available_rooms(target_date, failRooms, failBookings) ==
    IF failRooms THEN << >>
    ELSE LET active_bookings == get_active_bookings(target_date, failBookings)
             occupied_rooms == {active_bookings[i].RoomNumber :
                                   i \in 1..Len(active_bookings)}
             available == SelectSeq(rooms_sheet,
                              LAMBDA room : /\ room.RoomNumber \notin occupied_rooms
                                            /\ room.Status \in {"AVAILABLE", "Available"})
         IN  [i \in 1..Len(available) |-> available[i].RoomNumber]

get_expenses_by_date(target_date, fail) ==
    IF fail THEN << >>
    ELSE SelectSeq(expenses_sheet, LAMBDA record : record.Date = target_date)

\* sorted(..., key=Date, reverse=True): stable, most recent date first
RECURSIVE SortByDateDesc(_, _)
SortByDateDesc(records, dates) ==
    IF dates = {} THEN << >>
    ELSE LET latest == CHOOSE d \in dates : \A e \in dates : e <= d
         IN  SelectSeq(records, LAMBDA x : x.Date = latest)
                 \o SortByDateDesc(records, dates \ {latest})

\* Variant: reverse=True left out, oldest date first
RECURSIVE SortByDateAsc(_, _)
SortByDateAsc(records, dates) ==
    IF dates = {} THEN << >>
    ELSE LET earliest == CHOOSE d \in dates : \A e \in dates : d <= e
         IN  SelectSeq(records, LAMBDA x : x.Date = earliest)
                 \o SortByDateAsc(records, dates \ {earliest})

sorted_records_ascending(all_records) ==
    SortByDateAsc(all_records, {all_records[i].Date : i \in 1..Len(all_records)})

sorted_records(all_records) ==
    SortByDateDesc(all_records, {all_records[i].Date : i \in 1..Len(all_records)})

get_recent_feedback(limit, fail) ==
    IF fail THEN << >>
    ELSE LET sorted == sorted_records(feedback_sheet)
         IN  SubSeq(sorted, 1, Min(limit, Len(sorted)))

----------------------------------------------------------------------------
(* utils *)

\* float(x) of a whole-number cell, as a fraction
Whole(x) == [n |-> x, d |-> 1]

FracAdd(p, q) == Frac(p.n * q.d + q.n * p.d, p.d * q.d)

RECURSIVE SumFracRange(_, _, _)
SumFracRange(s, lo, hi) ==
    IF lo > hi THEN Zero
    ELSE IF lo = hi THEN s[lo]
    ELSE LET mid == (lo + hi) \div 2
         IN  FracAdd(SumFracRange(s, lo, mid), SumFracRange(s, mid + 1, hi))

SumFrac(s) == SumFracRange(s, 1, Len(s))

\* Variant: floor division of the room counts
occupancy_percentage_floordiv(occupied_rooms, total_rooms) ==
    IF total_rooms = 0 THEN Zero ELSE Whole((occupied_rooms \div total_rooms) * 100)

calculate_occupancy_percentage(occupied_rooms, total_rooms) ==
    IF total_rooms = 0 THEN Zero ELSE Frac(occupied_rooms * 100, total_rooms)

\* Variant: the quotient truncated to a whole number
average_truncated(values) ==
    IF values = << >> THEN Zero
    ELSE LET total == SumFrac(values) IN Whole(total.n \div (total.d * Len(values)))

average(values) ==
    IF values = << >> THEN Zero
    ELSE LET total == SumFrac(values) IN Frac(total.n, total.d * Len(values))

\* get_occupancy_status: the status word (the emoji is left out)
get_occupancy_status(occupancy_percentage) ==
    IF ~FracLess(occupancy_percentage, Whole(90)) THEN "Excellent"
    ELSE IF ~FracLess(occupancy_percentage, Whole(80)) THEN "Good"
    ELSE IF ~FracLess(occupancy_percentage, Whole(60)) THEN "Moderate"
    ELSE IF ~FracLess(occupancy_percentage, Whole(40)) THEN "Low"
    ELSE "Critical"

get_today == today

get_week_dates ==
    LET start == today - weekday(today) IN <<start, start + 6>>

\* Variant: every month taken to have 31 days
get_month_dates_thirty_one ==
    LET start == date(year(today), month(today), 1) IN <<start, start + 30>>

get_month_dates ==
    LET y == year(today)
        m == month(today)
        start == date(y, m, 1)
        end == IF m = 12 THEN date(y + 1, 1, 1) - 1 ELSE date(y, m + 1, 1) - 1
    IN  <<start, end>>

----------------------------------------------------------------------------
(* AnalyticsEngine *)

Totals(bookings) == SumSeq(Map(bookings, LAMBDA b : b.Total))
Advances(bookings) == SumSeq(Map(bookings, LAMBDA b : b.Advance))
Balances(bookings) == SumSeq(Map(bookings, LAMBDA b : b.Balance))
Amounts(expenses) == SumSeq(Map(expenses, LAMBDA e : e.Amount))

\* Variant: never below zero
available_rooms_clamped(occupied_rooms) ==
    IF TOTAL_ROOMS - occupied_rooms < 0 THEN 0 ELSE TOTAL_ROOMS - occupied_rooms

available_rooms(occupied_rooms) == TOTAL_ROOMS - occupied_rooms

\* Variant: a loss reported as zero profit
net_profit_clamped(total_revenue, total_expenses) ==
    IF total_revenue < total_expenses THEN 0 ELSE total_revenue - total_expenses

net_profit(total_revenue, total_expenses) == total_revenue - total_expenses

average_room_rate(active_bookings) ==
    IF active_bookings # << >>
    THEN average(Map(active_bookings, LAMBDA b : Whole(b.Rate)))
    ELSE Zero

average_rating(today_feedback) ==
    IF today_feedback # << >>
    THEN average(Map(today_feedback, LAMBDA f : Whole(f.Rating)))
    ELSE Zero

\* The sheet reads one generate_daily_report(target_date) call makes
ReportReads(target_date) ==
    {"active_bookings", "expenses", "feedback"}
        \cup (IF target_date = get_today THEN {"checkins", "checkouts"} ELSE {})

\* The values the call fetches, `failed` being the reads that raise
ReportFetch(target_date, failed) ==
    [active_bookings |-> get_active_bookings(target_date, "active_bookings" \in failed),
     checkins |-> IF target_date = get_today
                  THEN get_todays_checkins("checkins" \in failed) ELSE << >>,
     checkouts |-> IF target_date = get_today
                   THEN get_todays_checkouts("checkouts" \in failed) ELSE << >>,
     expenses |-> get_expenses_by_date(target_date, "expenses" \in failed),
     today_feedback |->
         SelectSeq(get_recent_feedback(FEEDBACK_LIMIT, "feedback" \in failed),
                   LAMBDA f : f.Date = target_date)]

\* Variant: the revenue taken from a second read of the bookings, made when
\* the report is assembled
DailyReport_rereading(target_date, got) ==
    LET occupied_rooms == Len(got.active_bookings)
        total_revenue == Totals(get_active_bookings(target_date, FALSE))
        total_expenses == Amounts(got.expenses)
    IN  [report_date |-> target_date,
         total_rooms |-> TOTAL_ROOMS,
         occupied_rooms |-> occupied_rooms,
         available_rooms |-> available_rooms(occupied_rooms),
         occupancy_percentage |->
             calculate_occupancy_percentage(occupied_rooms, TOTAL_ROOMS),
         check_ins |-> Len(got.checkins),
         check_outs |-> Len(got.checkouts),
         total_revenue |-> total_revenue,
         total_expenses |-> total_expenses,
         net_profit |-> net_profit(total_revenue, total_expenses),
         advance_collected |-> Advances(got.active_bookings),
         balance_pending |-> Balances(got.active_bookings),
         new_bookings |-> 0,
         cancellations |-> 0,
         average_room_rate |-> average_room_rate(got.active_bookings),
         guest_feedback_count |-> Len(got.today_feedback),
         average_rating |-> average_rating(got.today_feedback)]

DailyReport(target_date, got) ==
    LET occupied_rooms == Len(got.active_bookings)
        total_revenue == Totals(got.active_bookings)
        total_expenses == Amounts(got.expenses)
    IN  [report_date |-> target_date,
         total_rooms |-> TOTAL_ROOMS,
         occupied_rooms |-> occupied_rooms,
         available_rooms |-> available_rooms(occupied_rooms),
         occupancy_percentage |->
             calculate_occupancy_percentage(occupied_rooms, TOTAL_ROOMS),
         check_ins |-> Len(got.checkins),
         check_outs |-> Len(got.checkouts),
         total_revenue |-> total_revenue,
         total_expenses |-> total_expenses,
         net_profit |-> net_profit(total_revenue, total_expenses),
         advance_collected |-> Advances(got.active_bookings),
         balance_pending |-> Balances(got.active_bookings),
         new_bookings |-> 0,
         cancellations |-> 0,
         average_room_rate |-> average_room_rate(got.active_bookings),
         guest_feedback_count |-> Len(got.today_feedback),
         average_rating |-> average_rating(got.today_feedback)]

\* Variant: the list left in loop order
NotReversed(s) == s

Reverse(s) == [k \in 1..Len(s) |-> s[Len(s) + 1 - k]]

\* for i in range(days): target_date = today - timedelta(days=i)
TrendDates(days) == [j \in 1..days |-> get_today - (j - 1)]

\* `failing` holds the loop indices i whose sheet read raises
get_occupancy_trend(days, failing) ==
    LET dates == TrendDates(days)
        trend == [j \in 1..days |->
                     <<dates[j],
                       calculate_occupancy_percentage(
                           Len(get_active_bookings(dates[j], (j - 1) \in failing)),
                           TOTAL_ROOMS)>>]
    IN  Reverse(trend)

\* Variant: the advances collected, not the booking totals
get_revenue_trend_advances(days, failing) ==
    LET dates == TrendDates(days)
        trend == [j \in 1..days |->
                     <<dates[j],
                       Advances(get_active_bookings(dates[j], (j - 1) \in failing))>>]
    IN  Reverse(trend)

get_revenue_trend(days, failing) ==
    LET dates == TrendDates(days)
        trend == [j \in 1..days |->
                     <<dates[j],
                       Totals(get_active_bookings(dates[j], (j - 1) \in failing))>>]
    IN  Reverse(trend)

\* Variant: the balances still due, not the booking totals
daily_revenue_balances(active_bookings) == Balances(active_bookings)

\* daily_revenue = sum(float(b.get('Total', 0)) for b in active_bookings)
daily_revenue(active_bookings) == Totals(active_bookings)

\* daily_expenses = sum(float(e.get('Amount', 0)) for e in expenses)
daily_expenses(expenses) == Amounts(expenses)

\* Variant: the loop stops before end_date
DayRange_exclusive(start_date, end_date) ==
    [k \in 1..(end_date - start_date) |-> start_date + (k - 1)]

\* while current_date <= end_date: ... current_date += timedelta(days=1)
DayRange(start_date, end_date) ==
    [k \in 1..(end_date - start_date + 1) |-> start_date + (k - 1)]

\* utils.get_date_range: the same loop, collecting the dates; a range with
\* start_date > end_date runs it zero times
get_date_range(start_date, end_date) == DayRange(start_date, end_date)

\* Variant: each booking's Total is taken once for the whole period
PeriodSummary_once(range, failB, failE) ==
    LET start_date == range[1]
        end_date == range[2]
        days == DayRange(start_date, end_date)
        active(d) == get_active_bookings(d, d \in failB)
        total_revenue ==
            Totals(SelectSeq(bookings_sheet, LAMBDA record :
                \E k \in 1..Len(days) :
                    \E j \in 1..Len(active(days[k])) : active(days[k])[j] = record))
        total_expenses ==
            SumSeq(Map(days, LAMBDA d :
                daily_expenses(get_expenses_by_date(d, d \in failE))))
        occupancy_rates ==
            Map(days, LAMBDA d :
                calculate_occupancy_percentage(Len(active(d)), TOTAL_ROOMS))
    IN  [start_date |-> start_date,
         end_date |-> end_date,
         total_revenue |-> total_revenue,
         total_expenses |-> total_expenses,
         net_profit |-> net_profit(total_revenue, total_expenses),
         average_occupancy |->
             IF occupancy_rates # << >> THEN average(occupancy_rates) ELSE Zero,
         days |-> (end_date - start_date) + 1]

\* The loop of get_weekly_summary and get_monthly_summary; failB and failE
\* are the days whose bookings read, resp. expenses read, raises
PeriodSummary(range, failB, failE) ==
    LET start_date == range[1]
        end_date == range[2]
        days == DayRange(start_date, end_date)
        active(d) == get_active_bookings(d, d \in failB)
        total_revenue == SumSeq(Map(days, LAMBDA d : daily_revenue(active(d))))
        total_expenses ==
            SumSeq(Map(days, LAMBDA d :
                daily_expenses(get_expenses_by_date(d, d \in failE))))
        occupancy_rates ==
            Map(days, LAMBDA d :
                calculate_occupancy_percentage(Len(active(d)), TOTAL_ROOMS))
    IN  [start_date |-> start_date,
         end_date |-> end_date,
         total_revenue |-> total_revenue,
         total_expenses |-> total_expenses,
         net_profit |-> net_profit(total_revenue, total_expenses),
         average_occupancy |->
             IF occupancy_rates # << >> THEN average(occupancy_rates) ELSE Zero,
         days |-> (end_date - start_date) + 1]

get_weekly_summary(failB, failE) == PeriodSummary(get_week_dates, failB, failE)

get_monthly_summary(failB, failE) == PeriodSummary(get_month_dates, failB, failE)

\* dict of counts in insertion order: a sequence of <<key, count>> pairs
RECURSIVE Tally(_, _)
Tally(keys, counts) ==
    IF keys = << >> THEN counts
    ELSE LET k == Head(keys)
             seen == {i \in 1..Len(counts) : counts[i][1] = k}
         IN  IF seen = {}
             THEN Tally(Tail(keys), Append(counts, <<k, 1>>))
             ELSE LET i == CHOOSE x \in seen : TRUE
                  IN  Tally(Tail(keys), [counts EXCEPT ![i] = <<k, counts[i][2] + 1>>])

\* booking.get('Category', 'UNKNOWN'): every record has the key, so the
\* default is never taken and a blank cell is tallied under ''
\* Variant: the tally starts out with an UNKNOWN entry of zero
analyze_guest_categories_seeded(fail) ==
    Tally(Map(get_active_bookings(today, fail), LAMBDA b : b.Category),
          << <<"UNKNOWN", 0>> >>)

analyze_guest_categories(fail) ==
    Tally(Map(get_active_bookings(today, fail), LAMBDA b : b.Category), << >>)

analyze_booking_sources(fail) ==
    Tally(Map(get_active_bookings(today, fail), LAMBDA b : b.Source), << >>)

\* Variant: every balance other than zero is listed
get_payment_pending_summary_nonzero(fail) ==
    LET pending == SelectSeq(get_active_bookings(today, fail), LAMBDA b : b.Balance # 0)
        pending_bookings ==
            Map(pending, LAMBDA b : [booking_id |-> b.BookingID, balance |-> b.Balance])
    IN  [count |-> Len(pending_bookings),
         total_amount |-> Balances(pending),
         bookings |-> pending_bookings]

get_payment_pending_summary(fail) ==
    LET pending == SelectSeq(get_active_bookings(today, fail), LAMBDA b : b.Balance > 0)
        pending_bookings ==
            Map(pending, LAMBDA b : [booking_id |-> b.BookingID, balance |-> b.Balance])
    IN  [count |-> Len(pending_bookings),
         total_amount |-> Balances(pending),
         bookings |-> pending_bookings]

None == [none |-> TRUE]

\* Variant: an occupancy equal to the threshold alerts too
get_low_occupancy_alert_inclusive(failed) ==
    LET report == DailyReport(get_today, ReportFetch(get_today, failed))
    IN  IF ~FracLess(Whole(LOW_OCCUPANCY_THRESHOLD), report.occupancy_percentage)
        THEN [alert |-> TRUE,
              occupancy |-> report.occupancy_percentage,
              threshold |-> LOW_OCCUPANCY_THRESHOLD,
              available_rooms |-> report.available_rooms]
        ELSE None

get_low_occupancy_alert(failed) ==
    LET report == DailyReport(get_today, ReportFetch(get_today, failed))
    IN  IF FracLess(report.occupancy_percentage, Whole(LOW_OCCUPANCY_THRESHOLD))
        THEN [alert |-> TRUE,
              occupancy |-> report.occupancy_percentage,
              threshold |-> LOW_OCCUPANCY_THRESHOLD,
              available_rooms |-> report.available_rooms]
        ELSE None

\* Variant: the upper bounds taken inclusive
PricingRule_inclusive(occupancy) ==
    IF ~FracLess(Whole(50), occupancy)
    THEN [strategy |-> "Aggressive Discount",
          action |-> [locals |-> LOCAL_RATE - 100, tourists |-> STANDARD_RATE - 300]]
    ELSE IF ~FracLess(Whole(70), occupancy)
    THEN [strategy |-> "Moderate Discount",
          action |-> [locals |-> LOCAL_RATE, tourists |-> STANDARD_RATE - 200]]
    ELSE IF ~FracLess(Whole(90), occupancy)
    THEN [strategy |-> "Standard Pricing",
          action |-> [locals |-> LOCAL_RATE, tourists |-> STANDARD_RATE]]
    ELSE [strategy |-> "Premium Pricing",
          action |-> [increase |-> "10-15%"]]

\* The if / elif chain; `action` holds the amounts the message quotes
PricingRule(occupancy) ==
    IF FracLess(occupancy, Whole(50))
    THEN [strategy |-> "Aggressive Discount",
          action |-> [locals |-> LOCAL_RATE - 100, tourists |-> STANDARD_RATE - 300]]
    ELSE IF FracLess(occupancy, Whole(70))
    THEN [strategy |-> "Moderate Discount",
          action |-> [locals |-> LOCAL_RATE, tourists |-> STANDARD_RATE - 200]]
    ELSE IF FracLess(occupancy, Whole(90))
    THEN [strategy |-> "Standard Pricing",
          action |-> [locals |-> LOCAL_RATE, tourists |-> STANDARD_RATE]]
    ELSE [strategy |-> "Premium Pricing",
          action |-> [increase |-> "10-15%"]]

suggest_pricing_strategy(failed) ==
    LET report == DailyReport(get_today, ReportFetch(get_today, failed))
        occupancy == report.occupancy_percentage
    IN  [current_occupancy |-> occupancy,
         suggestions |-> <<PricingRule(occupancy)>>]

\* Variant: among the keys with the greatest count the last one wins
TopCategory_last(categories) ==
    LET best == {i \in 1..Len(categories) :
                    \A j \in 1..Len(categories) : categories[j][2] <= categories[i][2]}
    IN  categories[CHOOSE i \in best : \A j \in best : j <= i][1]

\* max(categories, key=categories.get): the first key, in the dict's
\* insertion order, whose count no other key exceeds
TopCategory(categories) ==
    LET best == {i \in 1..Len(categories) :
                    \A j \in 1..Len(categories) : categories[j][2] <= categories[i][2]}
    IN  categories[CHOOSE i \in best : \A j \in best : i <= j][1]

\* The sheet reads one get_performance_insights call makes: those of the
\* daily report, then one bookings read each by get_payment_pending_summary
\* and analyze_guest_categories
InsightsReads == ReportReads(get_today) \cup {"pending_bookings", "category_bookings"}

\* Each insight is the record of the values its message quotes
get_performance_insights(failed) ==
    LET report == DailyReport(get_today, ReportFetch(get_today, failed))
        payment_summary == get_payment_pending_summary("pending_bookings" \in failed)
        categories == analyze_guest_categories("category_bookings" \in failed)
        top_category == TopCategory(categories)
    IN  << [kind |-> "occupancy",
            status |-> get_occupancy_status(report.occupancy_percentage),
            occupancy |-> report.occupancy_percentage] >>
        \o << IF report.net_profit > 0
              THEN [kind |-> "profit", amount |-> report.net_profit]
              ELSE [kind |-> "loss", amount |-> Abs(report.net_profit)] >>
        \o (IF payment_summary.count > 0
            THEN << [kind |-> "payments", count |-> payment_summary.count,
                     total_amount |-> payment_summary.total_amount] >>
            ELSE << >>)
        \o (IF categories # << >>
            THEN << [kind |-> "category", top_category |-> top_category,
                     bookings |-> CHOOSE c \in {categories[i][2] : i \in 1..Len(categories)} :
                                     \E i \in 1..Len(categories) :
                                         categories[i] = <<top_category, c>>] >>
            ELSE << >>)
        \o (IF report.guest_feedback_count > 0
            THEN << [kind |-> "rating", average_rating |-> report.average_rating,
                     reviews |-> report.guest_feedback_count] >>
            ELSE << >>)

----------------------------------------------------------------------------
(* The state after construction: a fresh spreadsheet (headers only), or an *)
(* established register                                                     *)

\* No call is in progress and no returned value is waiting for the caller
NoCall == [op |-> "none"]

Idle == ret = NoCall

Init ==
    /\ \/ /\ bookings_sheet = << >>
          /\ rooms_sheet = << >>
          /\ feedback_sheet = << >>
       \/ /\ bookings_sheet = LegacyBookings
          /\ rooms_sheet = LegacyRooms
          /\ feedback_sheet = LegacyFeedback
    /\ expenses_sheet = << >>
    /\ today = Epoch + 1
    /\ ret = NoCall

\* The register is the established one (feedback rows are never removed)
Established == Len(feedback_sheet) >= Len(LegacyFeedback)

\* Rows appended to the three sheets since the state after construction
Appended ==
    Len(bookings_sheet) + Len(expenses_sheet) + Len(feedback_sheet)
        - (IF Established THEN Len(LegacyBookings) + Len(LegacyFeedback) ELSE 0)

----------------------------------------------------------------------------
(* BookingTracker operations *)

add_booking(booking, fail) ==
    /\ Idle
    /\ Appended < MaxAppends
    /\ bookings_sheet' = IF fail THEN bookings_sheet
                         ELSE Append(bookings_sheet, BookingRow(booking))
    /\ ret' = [op |-> "add_booking", arg |-> booking, failed |-> fail, val |-> ~fail]
    /\ UNCHANGED <<rooms_sheet, expenses_sheet, feedback_sheet, today>>

\* bookings_sheet.find(booking_id): the first row holding the id, 0 if none
FindRow(booking_id) ==
    LET hits == {i \in 1..Len(bookings_sheet) : bookings_sheet[i].BookingID = booking_id}
    IN  IF hits = {} THEN 0 ELSE CHOOSE i \in hits : \A j \in hits : i <= j

UpdateIds == {1, 101, 99}

\* `updates` is a dict in insertion order: a sequence of <<key, value>> pairs
UpdateInputs == { << <<"Checked Out", TRUE>> >> }

\* headers = self.bookings_sheet.row_values(1), as far as the rows are modelled
Headers ==
    {"Booking ID", "Category", "Room Number", "Check-in", "Check-out", "Rate",
     "Total", "Advance", "Balance", "Source", "Checked In", "Checked Out"}

\* update_cell(row_num, col_num, value) for the column named key
WriteCell(row, key, value) ==
    CASE key = "Booking ID" -> [row EXCEPT !.BookingID = value]
      [] key = "Category" -> [row EXCEPT !.Category = value]
      [] key = "Room Number" -> [row EXCEPT !.RoomNumber = value]
      [] key = "Check-in" -> [row EXCEPT !.CheckIn = value]
      [] key = "Check-out" -> [row EXCEPT !.CheckOut = value]
      [] key = "Rate" -> [row EXCEPT !.Rate = value]
      [] key = "Total" -> [row EXCEPT !.Total = value]
      [] key = "Advance" -> [row EXCEPT !.Advance = value]
      [] key = "Balance" -> [row EXCEPT !.Balance = value]
      [] key = "Source" -> [row EXCEPT !.Source = value]
      [] key = "Checked In" -> [row EXCEPT !.CheckedIn = BoolCell(value)]
      [] key = "Checked Out" -> [row EXCEPT !.CheckedOut = BoolCell(value)]

\* for key, value in updates.items(): if key in headers: update_cell(...).
\* `budget` is the number of update_cell calls that succeed before one raises.
RECURSIVE ApplyUpdates(_, _, _)
ApplyUpdates(row, updates, budget) ==
    IF updates = << >> THEN [row |-> row, raised |-> FALSE]
    ELSE LET key == Head(updates)[1]
             value == Head(updates)[2]
         IN  IF key \notin Headers THEN ApplyUpdates(row, Tail(updates), budget)
             ELSE IF budget = 0 THEN [row |-> row, raised |-> TRUE]
             ELSE ApplyUpdates(WriteCell(row, key, value), Tail(updates), budget - 1)

\* `fail` names the store call that raises: 0 none, 1 find, 2 row_values(1),
\* 2 + j the j-th update_cell
update_booking(booking_id, updates, fail) ==
    LET row_num == FindRow(booking_id)
        reached == fail # 1 /\ row_num # 0 /\ fail # 2
        budget == IF fail = 0 THEN Len(updates) ELSE fail - 3
        done == ApplyUpdates(bookings_sheet[row_num], updates, budget)
    IN  /\ Idle
        /\ bookings_sheet' =
               IF reached
               THEN [bookings_sheet EXCEPT ![row_num] = done.row]
               ELSE bookings_sheet
        /\ ret' = [op |-> "update_booking", arg |-> <<booking_id, updates>>,
                   failed |-> fail, row_num |-> IF fail = 1 THEN 0 ELSE row_num,
                   val |-> reached /\ ~done.raised]
        /\ UNCHANGED <<rooms_sheet, expenses_sheet, feedback_sheet, today>>

add_expense(expense, fail) ==
    /\ Idle
    /\ Appended < MaxAppends
    /\ expenses_sheet' = IF fail THEN expenses_sheet
                         ELSE Append(expenses_sheet, ExpenseRow(expense))
    /\ ret' = [op |-> "add_expense", arg |-> expense, failed |-> fail, val |-> ~fail]
    /\ UNCHANGED <<bookings_sheet, rooms_sheet, feedback_sheet, today>>

add_feedback(feedback, fail) ==
    /\ Idle
    /\ Appended < MaxAppends
    /\ feedback_sheet' = IF fail THEN feedback_sheet
                         ELSE Append(feedback_sheet, FeedbackRow(feedback))
    /\ ret' = [op |-> "add_feedback", arg |-> feedback, failed |-> fail, val |-> ~fail]
    /\ UNCHANGED <<bookings_sheet, rooms_sheet, expenses_sheet, today>>

ActiveBookingsCall(target_date, fail) ==
    /\ Idle
    /\ ret' = [op |-> "get_active_bookings", arg |-> target_date, failed |-> fail,
               val |-> get_active_bookings(target_date, fail)]
    /\ UNCHANGED <<sheets, today>>

----------------------------------------------------------------------------
(* AnalyticsEngine operations.  No tracker query ever raises, so each call *)
(* returns through its normal path.                                         *)

\* Variant: the feedback rows read for the report are cleared from the sheet
DailyReportCall_consuming(target_date, failed) ==
    LET got == ReportFetch(target_date, failed)
    IN  /\ Idle
        /\ ret' = [op |-> "generate_daily_report", arg |-> target_date,
                   failed |-> failed,
                   got |-> [active_bookings |-> got.active_bookings,
                            expenses |-> got.expenses,
                            today_feedback |-> got.today_feedback],
                   outcome |-> "returned",
                   val |-> DailyReport(target_date, got)]
        /\ feedback_sheet' = SelectSeq(feedback_sheet, LAMBDA f : f.Date # target_date)
        /\ UNCHANGED <<bookings_sheet, rooms_sheet, expenses_sheet, today>>

DailyReportCall(target_date, failed) ==
    LET got == ReportFetch(target_date, failed)
    IN  /\ Idle
        /\ ret' = [op |-> "generate_daily_report", arg |-> target_date,
                   failed |-> failed,
                   got |-> [active_bookings |-> got.active_bookings,
                            expenses |-> got.expenses,
                            today_feedback |-> got.today_feedback],
                   outcome |-> "returned",
                   val |-> DailyReport(target_date, got)]
        /\ UNCHANGED <<sheets, today>>

OccupancyTrendCall(days, failing) ==
    /\ Idle
    /\ ret' = [op |-> "get_occupancy_trend", arg |-> days, failed |-> failing,
               outcome |-> "returned", val |-> get_occupancy_trend(days, failing)]
    /\ UNCHANGED <<sheets, today>>

RevenueTrendCall(days, failing) ==
    /\ Idle
    /\ ret' = [op |-> "get_revenue_trend", arg |-> days, failed |-> failing,
               outcome |-> "returned", val |-> get_revenue_trend(days, failing)]
    /\ UNCHANGED <<sheets, today>>

\* The failure patterns tried for a loop over a date range: no read fails,
\* today's read fails, every read fails
FailurePatterns(range) == { {}, {today}, {range[1] + k : k \in 0..(range[2] - range[1])} }

WeeklySummaryCall(failB, failE) ==
    /\ Idle
    /\ ret' = [op |-> "get_weekly_summary", arg |-> get_week_dates,
               failed |-> failB \cup failE, failB |-> failB, failE |-> failE,
               visited |-> DayRange(get_week_dates[1], get_week_dates[2]),
               outcome |-> "returned", val |-> get_weekly_summary(failB, failE)]
    /\ UNCHANGED <<sheets, today>>

MonthlySummaryCall(failB, failE) ==
    /\ Idle
    /\ ret' = [op |-> "get_monthly_summary", arg |-> get_month_dates,
               failed |-> failB \cup failE, failB |-> failB, failE |-> failE,
               visited |-> DayRange(get_month_dates[1], get_month_dates[2]),
               outcome |-> "returned", val |-> get_monthly_summary(failB, failE)]
    /\ UNCHANGED <<sheets, today>>

GuestCategoriesCall(fail) ==
    /\ Idle
    /\ ret' = [op |-> "analyze_guest_categories", arg |-> today,
               failed |-> IF fail THEN {"active_bookings"} ELSE {},
               outcome |-> "returned", val |-> analyze_guest_categories(fail)]
    /\ UNCHANGED <<sheets, today>>

BookingSourcesCall(fail) ==
    /\ Idle
    /\ ret' = [op |-> "analyze_booking_sources", arg |-> today,
               failed |-> IF fail THEN {"active_bookings"} ELSE {},
               outcome |-> "returned", val |-> analyze_booking_sources(fail)]
    /\ UNCHANGED <<sheets, today>>

PaymentPendingCall(fail) ==
    /\ Idle
    /\ ret' = [op |-> "get_payment_pending_summary", arg |-> today,
               failed |-> IF fail THEN {"active_bookings"} ELSE {},
               outcome |-> "returned", val |-> get_payment_pending_summary(fail)]
    /\ UNCHANGED <<sheets, today>>

LowOccupancyAlertCall(failed) ==
    /\ Idle
    /\ ret' = [op |-> "get_low_occupancy_alert", arg |-> today, failed |-> failed,
               outcome |-> "returned", val |-> get_low_occupancy_alert(failed)]
    /\ UNCHANGED <<sheets, today>>

\* `reads` are the sheet reads the call makes through generate_daily_report
PricingStrategyCall(failed) ==
    /\ Idle
    /\ ret' = [op |-> "suggest_pricing_strategy", arg |-> today,
               reads |-> ReportReads(today), failed |-> failed,
               outcome |-> "returned", val |-> suggest_pricing_strategy(failed)]
    /\ UNCHANGED <<sheets, today>>

InsightsCall(failed) ==
    /\ Idle
    /\ ret' = [op |-> "get_performance_insights", arg |-> today, failed |-> failed,
               outcome |-> "returned", val |-> get_performance_insights(failed)]
    /\ UNCHANGED <<sheets, today>>

\* The failure patterns tried for the insights in the full model: no read
\* fails, the pending-payments read fails, every read fails
InsightsFailures == { {}, {"pending_bookings"}, InsightsReads }

\* Midnight passes: date.today() moves on
Tick ==
    /\ Idle
    /\ today < Epoch + MaxDay - 1
    /\ today' = today + 1
    /\ UNCHANGED <<sheets, ret>>

\* The caller takes the returned value; nothing of the call is kept
Return ==
    /\ ~Idle
    /\ ret' = NoCall
    /\ UNCHANGED <<sheets, today>>

Next ==
    \/ \E b \in BookingInputs, fail \in BOOLEAN : add_booking(b, fail)
    \/ \E id \in UpdateIds, u \in UpdateInputs, fail \in 0..1 :
           update_booking(id, u, fail)
    \/ \E e \in ExpenseInputs, fail \in BOOLEAN : add_expense(e, fail)
    \/ \E f \in FeedbackInputs, fail \in BOOLEAN : add_feedback(f, fail)
    \/ \E d \in Days, fail \in BOOLEAN : ActiveBookingsCall(d, fail)
    \/ \E d \in Days : \E failed \in SUBSET ReportReads(d) : DailyReportCall(d, failed)
    \/ \E n \in 0..MaxWindow : \E failing \in SUBSET (0..(n - 1)) :
           OccupancyTrendCall(n, failing)
    \/ \E n \in 0..MaxWindow : \E failing \in SUBSET (0..(n - 1)) :
           RevenueTrendCall(n, failing)
    \/ \E failB, failE \in FailurePatterns(get_week_dates) : WeeklySummaryCall(failB, failE)
    \/ \E failB, failE \in FailurePatterns(get_month_dates) :
           MonthlySummaryCall(failB, failE)
    \/ \E fail \in BOOLEAN : GuestCategoriesCall(fail)
    \/ \E fail \in BOOLEAN : BookingSourcesCall(fail)
    \/ \E fail \in BOOLEAN : PaymentPendingCall(fail)
    \/ \E failed \in SUBSET ReportReads(today) : LowOccupancyAlertCall(failed)
    \/ \E failed \in SUBSET ReportReads(today) : PricingStrategyCall(failed)
    \/ \E failed \in InsightsFailures : InsightsCall(failed)
    \/ Tick
    \/ Return

Spec == Init /\ [][Next]_vars

----------------------------------------------------------------------------
(* The utilities on their own: calculate_occupancy_percentage over a grid  *)
(* of room counts, get_date_range over pairs of dates                      *)

OccupancyPercentageCall(occupied_rooms, total_rooms) ==
    /\ Idle
    /\ ret' = [op |-> "calculate_occupancy_percentage",
               arg |-> <<occupied_rooms, total_rooms>>,
               val |-> calculate_occupancy_percentage(occupied_rooms, total_rooms)]
    /\ UNCHANGED <<sheets, today>>

DateRangeCall(start_date, end_date) ==
    /\ Idle
    /\ ret' = [op |-> "get_date_range", arg |-> <<start_date, end_date>>,
               outcome |-> "returned", val |-> get_date_range(start_date, end_date)]
    /\ UNCHANGED <<sheets, today>>

InitUtil ==
    /\ bookings_sheet = << >>
    /\ rooms_sheet = << >>
    /\ expenses_sheet = << >>
    /\ feedback_sheet = << >>
    /\ today = Epoch + 1
    /\ ret = NoCall

NextUtil ==
    \/ \E o \in 0..MaxOcc, c \in 0..MaxCap : OccupancyPercentageCall(o, c)
    \/ \E start_date, end_date \in Days : DateRangeCall(start_date, end_date)
    \/ Return

SpecUtil == InitUtil /\ [][NextUtil]_vars

----------------------------------------------------------------------------
(* get_week_dates and get_month_dates, and the summaries built on them, over *)
(* the days of more than two years (an empty register)                       *)

CalendarStart == date(2024, 1, 1)

CalendarDays == {CalendarStart + k : k \in 0..MaxCalendarDay}

WeekDatesCall ==
    /\ Idle
    /\ ret' = [op |-> "get_week_dates", arg |-> today, val |-> get_week_dates]
    /\ UNCHANGED <<sheets, today>>

MonthDatesCall ==
    /\ Idle
    /\ ret' = [op |-> "get_month_dates", arg |-> today, val |-> get_month_dates]
    /\ UNCHANGED <<sheets, today>>

InitCalendar ==
    /\ bookings_sheet = << >>
    /\ rooms_sheet = << >>
    /\ expenses_sheet = << >>
    /\ feedback_sheet = << >>
    /\ today \in CalendarDays
    /\ ret = NoCall

NextCalendar ==
    \/ WeekDatesCall
    \/ MonthDatesCall
    \/ \E failB, failE \in FailurePatterns(get_week_dates) : WeeklySummaryCall(failB, failE)
    \/ \E failB, failE \in FailurePatterns(get_month_dates) :
           MonthlySummaryCall(failB, failE)
    \/ Return

SpecCalendar == InitCalendar /\ [][NextCalendar]_vars

----------------------------------------------------------------------------
(* The operations that depend on today's occupancy, over registers with 0 to *)
(* MaxInHouse guests in house                                                 *)

\* A hand-typed row of a guest in house on every modelled day; the balances
\* run 100, 0, 50, -20 (an advance above the total), the categories LOCAL,
\* TOURIST, TOURIST, LOCAL, blank
InHouseRow(i) ==
    LET balance == CASE i % 4 = 1 -> 100
                     [] i % 4 = 2 -> 0
                     [] i % 4 = 3 -> 50
                     [] OTHER -> 0 - 20
    IN  [BookingID |-> 200 + i,
         Category |-> CASE i % 5 \in {1, 4} -> "LOCAL"
                        [] i % 5 \in {2, 3} -> "TOURIST"
                        [] OTHER -> "",
         RoomNumber |-> i,
         CheckIn |-> Epoch, CheckOut |-> Epoch + MaxDay + 1,
         Rate |-> 100, Total |-> 200, Advance |-> 200 - balance, Balance |-> balance,
         Source |-> "Direct", CheckedIn |-> "", CheckedOut |-> ""]

InitOccupancy ==
    /\ \E k \in 0..MaxInHouse : bookings_sheet = [i \in 1..k |-> InHouseRow(i)]
    /\ rooms_sheet = << >>
    /\ expenses_sheet \in { << >>, << [Date |-> Epoch + 1, Amount |-> 500] >> }
    /\ feedback_sheet \in { << >>, << [Date |-> Epoch + 1, Rating |-> 2] >> }
    /\ today = Epoch + 1
    /\ ret = NoCall

NextOccupancy ==
    \/ \E failed \in SUBSET ReportReads(today) : PricingStrategyCall(failed)
    \/ \E failed \in SUBSET ReportReads(today) : LowOccupancyAlertCall(failed)
    \/ \E fail \in BOOLEAN : PaymentPendingCall(fail)
    \/ \E failed \in SUBSET InsightsReads : InsightsCall(failed)
    \/ Return

SpecOccupancy == InitOccupancy /\ [][NextOccupancy]_vars

----------------------------------------------------------------------------
(* get_recent_feedback over every feedback sheet of up to MaxFeedback rows *)

RecentFeedbackCall(limit, fail) ==
    /\ Idle
    /\ ret' = [op |-> "get_recent_feedback", arg |-> limit,
               failed |-> IF fail THEN {"feedback"} ELSE {},
               outcome |-> "returned", val |-> get_recent_feedback(limit, fail)]
    /\ UNCHANGED <<sheets, today>>

\* Feedback sheets: any dates in any order; the ratings tell the rows apart
FeedbackSheets ==
    UNION { { [i \in 1..n |-> [Date |-> dates[i], Rating |-> 1 + (i % 5)]] :
                dates \in [1..n -> Days] } : n \in 0..MaxFeedback }

InitFeedback ==
    /\ bookings_sheet = << >>
    /\ rooms_sheet = << >>
    /\ expenses_sheet = << >>
    /\ feedback_sheet \in FeedbackSheets
    /\ today = Epoch + 1
    /\ ret = NoCall

NextFeedback ==
    \/ \E limit \in 0..MaxLimit, fail \in BOOLEAN : RecentFeedbackCall(limit, fail)
    \/ Return

SpecFeedback == InitFeedback /\ [][NextFeedback]_vars

----------------------------------------------------------------------------
(* The BookingTracker on its own: bookings added and updated cell by cell, *)
(* room statuses, and the two availability queries                         *)

\* rooms_sheet.find(room_number): the first row holding the number, 0 if none
FindRoom(room_number) ==
    LET hits == {i \in 1..Len(rooms_sheet) : rooms_sheet[i].RoomNumber = room_number}
    IN  IF hits = {} THEN 0 ELSE CHOOSE i \in hits : \A j \in hits : i <= j

update_room_status(room_number, status, fail) ==
    LET row_num == FindRoom(room_number)
        found == ~fail /\ row_num # 0
    IN  /\ Idle
        /\ rooms_sheet' = IF found
                          THEN [rooms_sheet EXCEPT ![row_num].Status = status]
                          ELSE rooms_sheet
        /\ ret' = [op |-> "update_room_status", arg |-> <<room_number, status>>,
                   failed |-> fail, val |-> found]
        /\ UNCHANGED <<bookings_sheet, expenses_sheet, feedback_sheet, today>>

AvailableRoomsCall(target_date, failRooms, failBookings) ==
    /\ Idle
    /\ ret' = [op |-> "get_available_rooms", arg |-> target_date,
               failed |-> (IF failRooms THEN {"rooms"} ELSE {})
                              \cup (IF failBookings THEN {"active_bookings"} ELSE {}),
               val |-> get_available_rooms(target_date, failRooms, failBookings)]
    /\ UNCHANGED <<sheets, today>>

\* The updates tried: a check-out, a payment, a key that is no column
\* followed by a shortened stay, and a payment with its balance
TrackerUpdateInputs ==
    { << <<"Checked Out", TRUE>> >>,
      << <<"Advance", 300>> >>,
      << <<"Paid", TRUE>>, <<"Check-out", Epoch + 1>> >>,
      << <<"Advance", 300>>, <<"Balance", 0>> >> }

RoomNumbers == {1, 99}

RoomStatuses == {"AVAILABLE", "OCCUPIED"}

InitTracker ==
    /\ bookings_sheet = << >>
    /\ rooms_sheet = LegacyRooms
    /\ expenses_sheet = << >>
    /\ feedback_sheet = << >>
    /\ today = Epoch + 1
    /\ ret = NoCall

NextTracker ==
    \/ \E b \in BookingInputs, fail \in BOOLEAN : add_booking(b, fail)
    \/ \E id \in UpdateIds, u \in TrackerUpdateInputs, fail \in 0..4 :
           update_booking(id, u, fail)
    \/ \E n \in RoomNumbers, status \in RoomStatuses, fail \in BOOLEAN :
           update_room_status(n, status, fail)
    \/ \E d \in Days, fail \in BOOLEAN : ActiveBookingsCall(d, fail)
    \/ \E d \in Days, failRooms, failBookings \in BOOLEAN :
           AvailableRoomsCall(d, failRooms, failBookings)
    \/ Return

SpecTracker == InitTracker /\ [][NextTracker]_vars

----------------------------------------------------------------------------
(* generate_daily_report read by read, with writers changing the sheets    *)
(* between its reads.  The call in progress is held in ret: pc names the    *)
(* read it makes next, got the lists fetched so far, seen the sheets as     *)
(* they were at its first read.                                             *)

SkewBookings == << LegacyRow(1), LegacyRow(6) >>

SkewAppended ==
    Len(bookings_sheet) + Len(expenses_sheet) + Len(feedback_sheet) - Len(SkewBookings)

Running(pc) ==
    /\ ret.op = "generate_daily_report"
    /\ ret.outcome = "running"
    /\ ret.pc = pc

\* The call goes on to its next read with `key` of got fetched
Fetched(key, value, fail, pc) ==
    [ret EXCEPT !.got = [ret.got EXCEPT ![key] = value],
                !.failed = ret.failed \cup (IF fail THEN {key} ELSE {}),
                !.pc = pc]

\* active_bookings = self.tracker.get_active_bookings(target_date)
ReportReadsBookings(target_date, fail) ==
    /\ Idle
    /\ ret' = [op |-> "generate_daily_report", arg |-> target_date,
               failed |-> IF fail THEN {"active_bookings"} ELSE {},
               outcome |-> "running",
               pc |-> IF target_date = get_today THEN "checkins" ELSE "expenses",
               got |-> [active_bookings |-> get_active_bookings(target_date, fail),
                        checkins |-> << >>, checkouts |-> << >>,
                        expenses |-> << >>, today_feedback |-> << >>],
               seen |-> [bookings |-> bookings_sheet, expenses |-> expenses_sheet,
                         feedback |-> feedback_sheet]]
    /\ UNCHANGED <<sheets, today>>

\* checkins = self.tracker.get_todays_checkins()
ReportReadsCheckins(fail) ==
    /\ Running("checkins")
    /\ ret' = Fetched("checkins", get_todays_checkins(fail), fail, "checkouts")
    /\ UNCHANGED <<sheets, today>>

\* checkouts = self.tracker.get_todays_checkouts()
ReportReadsCheckouts(fail) ==
    /\ Running("checkouts")
    /\ ret' = Fetched("checkouts", get_todays_checkouts(fail), fail, "expenses")
    /\ UNCHANGED <<sheets, today>>

\* expenses = self.tracker.get_expenses_by_date(target_date)
ReportReadsExpenses(fail) ==
    /\ Running("expenses")
    /\ ret' = Fetched("expenses", get_expenses_by_date(ret.arg, fail), fail, "feedback")
    /\ UNCHANGED <<sheets, today>>

\* feedback = self.tracker.get_recent_feedback(limit=100); the report is
\* assembled and returned
ReportReadsFeedback(fail) ==
    /\ Running("feedback")
    /\ LET feedback == get_recent_feedback(FEEDBACK_LIMIT, fail)
           done == Fetched("today_feedback",
                           SelectSeq(feedback, LAMBDA f : f.Date = ret.arg),
                           fail, "done")
       IN  ret' = [op |-> done.op, arg |-> done.arg, failed |-> done.failed,
                   outcome |-> "returned", pc |-> done.pc, got |-> done.got,
                   seen |-> done.seen, val |-> DailyReport(done.arg, done.got)]
    /\ UNCHANGED <<sheets, today>>

\* Another user of the spreadsheet adds a booking (add_booking's append)
WriterAddsBooking(booking) ==
    /\ SkewAppended < MaxAppends
    /\ bookings_sheet' = Append(bookings_sheet, BookingRow(booking))
    /\ UNCHANGED <<rooms_sheet, expenses_sheet, feedback_sheet, today, ret>>

\* Another user checks a booking out (update_booking's cell write)
WriterUpdatesBooking(booking_id, updates) ==
    LET row_num == FindRow(booking_id)
    IN  /\ row_num # 0
        /\ bookings_sheet' =
               [bookings_sheet EXCEPT
                   ![row_num] = ApplyUpdates(bookings_sheet[row_num], updates,
                                             Len(updates)).row]
        /\ bookings_sheet' # bookings_sheet
        /\ UNCHANGED <<rooms_sheet, expenses_sheet, feedback_sheet, today, ret>>

\* Another user records an expense (add_expense's append)
WriterAddsExpense(expense) ==
    /\ SkewAppended < MaxAppends
    /\ expenses_sheet' = Append(expenses_sheet, ExpenseRow(expense))
    /\ UNCHANGED <<bookings_sheet, rooms_sheet, feedback_sheet, today, ret>>

\* Another user records a feedback (add_feedback's append)
WriterAddsFeedback(feedback) ==
    /\ SkewAppended < MaxAppends
    /\ feedback_sheet' = Append(feedback_sheet, FeedbackRow(feedback))
    /\ UNCHANGED <<bookings_sheet, rooms_sheet, expenses_sheet, today, ret>>

InitSkew ==
    /\ bookings_sheet = SkewBookings
    /\ rooms_sheet = << >>
    /\ expenses_sheet = << >>
    /\ feedback_sheet = << >>
    /\ today = Epoch + 1
    /\ ret = NoCall

NextSkew ==
    \/ \E d \in Days, fail \in BOOLEAN : ReportReadsBookings(d, fail)
    \/ \E fail \in BOOLEAN : ReportReadsCheckins(fail)
    \/ \E fail \in BOOLEAN : ReportReadsCheckouts(fail)
    \/ \E fail \in BOOLEAN : ReportReadsExpenses(fail)
    \/ \E fail \in BOOLEAN : ReportReadsFeedback(fail)
    \/ \E b \in BookingInputs : WriterAddsBooking(b)
    \/ \E id \in UpdateIds, u \in UpdateInputs : WriterUpdatesBooking(id, u)
    \/ \E e \in ExpenseInputs : WriterAddsExpense(e)
    \/ \E f \in FeedbackInputs : WriterAddsFeedback(f)
    \/ ret.op = "generate_daily_report" /\ ret.outcome = "returned" /\ Return

SpecSkew == InitSkew /\ [][NextSkew]_vars

----------------------------------------------------------------------------
(* Vocabulary of the properties *)

IsReport == ret.op = "generate_daily_report"

\* The call's reads of the store all succeeded
ReadsSucceeded == ret.failed = {}

\* The record says the guest has checked out / checked in
CheckedOut(record) == record.CheckedOut = "TRUE"
CheckedIn(record) == record.CheckedIn = "TRUE"

Rows(sheet) == 1..Len(sheet)

\* Sum of Op over the elements of a sequence, left to right
SumBy(s, Op(_)) ==
    LET acc[i \in 0..Len(s)] == IF i = 0 THEN 0 ELSE acc[i - 1] + Op(s[i])
    IN  acc[Len(s)]

\* The fraction p is the mean of a sequence with sum `total` and `count` elements
IsMean(p, total, count) == p.d > 0 /\ p.n * count = total * p.d

----------------------------------------------------------------------------
(* C1 *)

\* C1: get_active_bookings(D) returns a record of the store if and only if
\* check_in <= D < check_out and the booking has not been checked out.
\* Stated for the calls whose sheet read succeeded.
C1_ActiveIffStayContainsDate ==
    (ret.op = "get_active_bookings" /\ ~ret.failed) =>
        \A i \in Rows(bookings_sheet) :
            LET record == bookings_sheet[i]
            IN  (\E j \in Rows(ret.val) : ret.val[j] = record)
                    <=> /\ record.CheckIn <= ret.arg
                        /\ ret.arg < record.CheckOut
                        /\ ~CheckedOut(record)

\* C2: when a store read fails during generate_daily_report the call ends in
\* an error, and a returned report with zero occupancy means that the store
\* holds no booking active on the report date.
C2_ReportFailurePropagates ==
    IsReport =>
        /\ ~ReadsSucceeded => ret.outcome = "raised"
        /\ (ret.outcome = "returned" /\ ret.val.occupied_rooms = 0) =>
               \A i \in Rows(bookings_sheet) :
                   ~IsActive(bookings_sheet[i], ret.arg)

ReadingOps ==
    {"get_occupancy_trend", "get_revenue_trend", "get_weekly_summary",
     "get_monthly_summary", "analyze_guest_categories", "analyze_booking_sources",
     "get_payment_pending_summary", "get_low_occupancy_alert"}

\* C3: for the trend, period-summary, distribution, pending-payment and
\* low-occupancy-alert operations a failed store read is surfaced as an error,
\* not returned as a result.
C3_ReadFailureSurfaced ==
    (ret.op \in ReadingOps /\ ~ReadsSucceeded) => ret.outcome = "raised"

\* C4: calculate_occupancy_percentage(O, C) = O/C*100 for C > 0 and
\* 0 <= O <= C, and 0 for C = 0 whatever O is.
C4_OccupancyPercentage ==
    ret.op = "calculate_occupancy_percentage" =>
        LET O == ret.arg[1]
            C == ret.arg[2]
        IN  /\ (C > 0 /\ O <= C) => (ret.val.d > 0 /\ ret.val.n * C = O * 100 * ret.val.d)
            /\ C = 0 => ret.val = Zero

C4_Witness ==
    /\ ret.op = "calculate_occupancy_percentage"
    /\ ret.arg = <<2, 3>>
    /\ ret.val = [n |-> 200, d |-> 3]

\* C5: in every DailyReport occupied_rooms is the number of bookings the
\* active-bookings query returned for the report date, available_rooms is
\* the capacity minus occupied_rooms (so the two add up to total_rooms), and
\* available_rooms is negative when more bookings are active than rooms exist.
C5_RoomCounts ==
    IsReport =>
        /\ ret.val.total_rooms = TOTAL_ROOMS
        /\ ret.val.occupied_rooms = Cardinality(Rows(ret.got.active_bookings))
        /\ ret.val.occupied_rooms + ret.val.available_rooms = ret.val.total_rooms
        /\ ret.val.occupied_rooms > ret.val.total_rooms => ret.val.available_rooms < 0

C5_Witness ==
    /\ IsReport
    /\ ret.val.occupied_rooms = TOTAL_ROOMS + 1
    /\ ret.val.available_rooms = 0 - 1

\* C6: in every DailyReport and every weekly/monthly summary net_profit =
\* total_revenue - total_expenses, also when that is negative.
C6_NetProfit ==
    ret.op \in {"generate_daily_report", "get_weekly_summary", "get_monthly_summary"} =>
        ret.val.net_profit = ret.val.total_revenue - ret.val.total_expenses

C6_Witness ==
    /\ IsReport
    /\ ret.val.total_revenue > 0
    /\ ret.val.total_expenses > ret.val.total_revenue
    /\ ret.val.net_profit < 0

\* C7: a DailyReport's total_revenue, advance_collected and balance_pending
\* are the sums of Total, Advance and Balance over the bookings active on the
\* report date (the rows the active-bookings query returned), total_expenses
\* is the sum of the amounts of the expenses dated that day, and
\* average_room_rate is the mean of Rate over the active bookings, 0 if none.
C7_ReportSums ==
    IsReport =>
        LET active == ret.got.active_bookings
            report == ret.val
        IN  /\ report.total_revenue = SumBy(active, LAMBDA b : b.Total)
            /\ report.advance_collected = SumBy(active, LAMBDA b : b.Advance)
            /\ report.balance_pending = SumBy(active, LAMBDA b : b.Balance)
            /\ \A i \in Rows(ret.got.expenses) : ret.got.expenses[i].Date = ret.arg
            /\ "expenses" \notin ret.failed =>
                   report.total_expenses =
                       SumBy(SelectSeq(expenses_sheet, LAMBDA e : e.Date = ret.arg),
                             LAMBDA e : e.Amount)
            /\ report.total_expenses = SumBy(ret.got.expenses, LAMBDA e : e.Amount)
            /\ IF active = << >>
               THEN report.average_room_rate = Zero
               ELSE IsMean(report.average_room_rate,
                           SumBy(active, LAMBDA b : b.Rate), Len(active))

C7_Witness ==
    /\ IsReport
    /\ ReadsSucceeded
    /\ Len(ret.got.active_bookings) > 1
    /\ ret.val.average_room_rate.d > 1
    /\ ret.val.total_expenses > 0
    /\ ret.val.balance_pending > 0

\* C8: for every report date D and every content of the feedback store,
\* guest_feedback_count is the number of feedback records dated D and
\* average_rating is the mean of their ratings (0 if none).
\* Stated for the calls whose feedback read succeeded.
C8_FeedbackOfTheDay ==
    (IsReport /\ "feedback" \notin ret.failed) =>
        LET dated == SelectSeq(feedback_sheet, LAMBDA f : f.Date = ret.arg)
        IN  /\ ret.val.guest_feedback_count = Len(dated)
            /\ IF dated = << >>
               THEN ret.val.average_rating = Zero
               ELSE IsMean(ret.val.average_rating,
                           SumSeq(Map(dated, LAMBDA f : f.Rating)), Len(dated))

\* C9: a DailyReport for a date other than today has check_ins = 0 and
\* check_outs = 0; a report for today counts the bookings whose check-in
\* (check-out) date is today and that are not yet checked in (checked out).
\* Stated for the calls whose sheet reads succeeded.
C9_CheckInsAndOuts ==
    (IsReport /\ ReadsSucceeded) =>
        IF ret.arg # today
        THEN ret.val.check_ins = 0 /\ ret.val.check_outs = 0
        ELSE /\ ret.val.check_ins =
                    Cardinality({i \in Rows(bookings_sheet) :
                                    /\ bookings_sheet[i].CheckIn = today
                                    /\ ~CheckedIn(bookings_sheet[i])})
             /\ ret.val.check_outs =
                    Cardinality({i \in Rows(bookings_sheet) :
                                    /\ bookings_sheet[i].CheckOut = today
                                    /\ ~CheckedOut(bookings_sheet[i])})

\* C10: for every window N >= 1 both trends return exactly N points on
\* consecutive, strictly ascending days, the first being today - (N - 1) and
\* the last today.
C10_TrendDates ==
    (ret.op \in {"get_occupancy_trend", "get_revenue_trend"} /\ ret.arg >= 1) =>
        /\ Len(ret.val) = ret.arg
        /\ \A k \in 1..Len(ret.val) : ret.val[k][1] = today - (ret.arg - 1) + (k - 1)
        /\ \A k \in 1..(Len(ret.val) - 1) : ret.val[k + 1][1] = ret.val[k][1] + 1
        /\ ret.val[Len(ret.val)][1] = today

C10_Witness ==
    /\ ret.op = "get_occupancy_trend"
    /\ ret.arg = 3
    /\ Len(ret.val) = 3
    /\ ret.val[1][1] = today - 2
    /\ ret.val[3][1] = today
    /\ ret.val[1][2] # ret.val[3][2]

\* The daily report for date d over the present store, its active-bookings
\* read failing exactly when `fail` says so
ReportFor(d, fail) ==
    DailyReport(d, ReportFetch(d, IF fail THEN {"active_bookings"} ELSE {}))

\* The loop index i of the k-th point of a trend of `days` points
LoopIndex(days, k) == days - k

\* C11: with the store unchanged, every point (d, v) of the occupancy trend
\* has v = the occupancy_percentage of the daily report for d, and every point
\* of the revenue trend has v = the total_revenue of the daily report for d,
\* the point's read and the report's read having had the same outcome.
C11_TrendPointsAreReportFields ==
    /\ ret.op = "get_occupancy_trend" =>
           \A k \in Rows(ret.val) :
               ret.val[k][2] =
                   ReportFor(ret.val[k][1],
                             LoopIndex(ret.arg, k) \in ret.failed).occupancy_percentage
    /\ ret.op = "get_revenue_trend" =>
           \A k \in Rows(ret.val) :
               ret.val[k][2] =
                   ReportFor(ret.val[k][1],
                             LoopIndex(ret.arg, k) \in ret.failed).total_revenue

C11_Witness ==
    /\ ret.op = "get_revenue_trend"
    /\ ret.arg = 3
    /\ ReadsSucceeded
    /\ ret.val[2][2] > 0
    /\ ret.val[3][2] > ret.val[2][2]
    /\ ret.val[3][2] = ReportFor(today, FALSE).total_revenue

IsSummary == ret.op \in {"get_weekly_summary", "get_monthly_summary"}

\* The daily report for date d over the present store, its bookings read
\* failing on the days of failB and its expenses read on the days of failE
ReportWith(d, failB, failE) ==
    DailyReport(d, ReportFetch(d, (IF d \in failB THEN {"active_bookings"} ELSE {})
                                      \cup (IF d \in failE THEN {"expenses"} ELSE {})))

\* Sum of Op(d) over the calendar days start_date .. end_date
SumOverDays(start_date, end_date, Op(_)) ==
    SumSeq([k \in 1..(end_date - start_date + 1) |-> Op(start_date + (k - 1))])

\* C12: the total_revenue and total_expenses of a weekly/monthly summary over
\* [start, end] are the sums of the daily reports' total_revenue and
\* total_expenses over the days of the range; and the summary loop run over a
\* single-day range [d, d] gives day count 1 and the total_revenue and
\* total_expenses of the daily report for d.
C12_SummaryIsSumOfReports ==
    /\ IsSummary =>
           LET start_date == ret.val.start_date
               end_date == ret.val.end_date
           IN  /\ ret.val.total_revenue =
                      SumOverDays(start_date, end_date,
                          LAMBDA d : ReportWith(d, ret.failB, ret.failE).total_revenue)
               /\ ret.val.total_expenses =
                      SumOverDays(start_date, end_date,
                          LAMBDA d : ReportWith(d, ret.failB, ret.failE).total_expenses)
    /\ Idle =>
           \A d \in Days :
               LET summary == PeriodSummary(<<d, d>>, {}, {})
                   report == ReportWith(d, {}, {})
               IN  /\ summary.days = 1
                   /\ summary.total_revenue = report.total_revenue
                   /\ summary.total_expenses = report.total_expenses

C12_Witness ==
    /\ ret.op = "get_weekly_summary"
    /\ ReadsSucceeded
    /\ ret.val.total_expenses > 0
    /\ ret.val.total_revenue > ReportWith(today, {}, {}).total_revenue
    /\ ReportWith(today, {}, {}).total_revenue > 0

\* Number of rows the bookings read of a summary gave for day d
ActiveCount(d) == Len(get_active_bookings(d, d \in ret.failB))

\* C13: every weekly/monthly summary has days = end_date - start_date + 1,
\* its loop visits each calendar day of [start_date, end_date] exactly once,
\* and average_occupancy is the arithmetic mean of that many per-day
\* occupancy percentages, so it lies between the least and the greatest.
C13_SummaryDaysAndMean ==
    IsSummary =>
        LET start_date == ret.val.start_date
            end_date == ret.val.end_date
            range == start_date..end_date
            avg == ret.val.average_occupancy
        IN  /\ ret.val.days = end_date - start_date + 1
            /\ Len(ret.visited) = ret.val.days
            /\ \A d \in range : Cardinality({k \in Rows(ret.visited) : ret.visited[k] = d}) = 1
            /\ \A k \in Rows(ret.visited) : ret.visited[k] \in range
            /\ avg.d > 0
            /\ avg.n * ret.val.days * TOTAL_ROOMS =
                   100 * SumOverDays(start_date, end_date, ActiveCount) * avg.d
            /\ \E d \in range : 100 * ActiveCount(d) * avg.d <= avg.n * TOTAL_ROOMS
            /\ \E d \in range : avg.n * TOTAL_ROOMS <= 100 * ActiveCount(d) * avg.d

C13_Witness ==
    /\ ret.op = "get_monthly_summary"
    /\ ReadsSucceeded
    /\ ret.val.days = 31
    /\ Len(ret.visited) = 31
    /\ ret.val.average_occupancy.n > 0
    /\ ret.val.average_occupancy.d > 1

\* date.day
day(n) == n - date(year(n), month(n), 1) + 1

SameMonth(a, b) == year(a) = year(b) /\ month(a) = month(b)

\* <<start, end>> is the Monday-to-Sunday week containing today
IsWeekOfToday(start, end) ==
    /\ weekday(start) = 0
    /\ end = start + 6
    /\ weekday(end) = 6
    /\ start <= today /\ today <= end

\* <<start, end>> is the first and the last calendar day of today's month
IsMonthOfToday(start, end) ==
    /\ SameMonth(start, today) /\ day(start) = 1
    /\ SameMonth(end, today) /\ day(end + 1) = 1
    /\ start <= today /\ today <= end
    /\ month(today) = 12 => end = date(year(today), 12, 31)
    /\ month(today) = 2 =>
           end - start + 1 = (IF year(today) % 4 = 0 THEN 29 ELSE 28)

\* C14: for every today, get_week_dates returns a Monday start, end = start
\* + 6 (a Sunday) with start <= today <= end; get_month_dates returns the
\* first and last calendar day of today's month, December and February
\* included; the weekly and monthly summaries cover exactly these ranges.
C14_WeekAndMonthDates ==
    /\ ret.op = "get_week_dates" => IsWeekOfToday(ret.val[1], ret.val[2])
    /\ ret.op = "get_month_dates" => IsMonthOfToday(ret.val[1], ret.val[2])
    /\ ret.op = "get_weekly_summary" =>
           /\ IsWeekOfToday(ret.val.start_date, ret.val.end_date)
           /\ ret.visited = [k \in 1..7 |-> ret.val.start_date + (k - 1)]
    /\ ret.op = "get_monthly_summary" =>
           /\ IsMonthOfToday(ret.val.start_date, ret.val.end_date)
           /\ ret.visited[1] = ret.val.start_date
           /\ ret.visited[Len(ret.visited)] = ret.val.end_date
           /\ \A k \in 1..(Len(ret.visited) - 1) : ret.visited[k + 1] = ret.visited[k] + 1

C14_Witness ==
    /\ ret.op = "get_monthly_summary"
    /\ today = date(2024, 12, 15)
    /\ ret.val.start_date = date(2024, 12, 1)
    /\ ret.val.end_date = date(2024, 12, 31)
    /\ ret.val.days = 31

IsPricing == ret.op = "suggest_pricing_strategy"

\* Rows today's active-bookings read of the call returned
InHouse == Len(get_active_bookings(today, "active_bookings" \in ret.failed))

\* C16: suggest_pricing_strategy returns exactly one suggestion, chosen on
\* the occupancy percentage O by first match with exclusive upper bounds:
\* O < 50 Aggressive Discount (local rate - 100, tourist rate - 300),
\* 50 <= O < 70 Moderate Discount (local rate, tourist rate - 200),
\* 70 <= O < 90 Standard Pricing (both rates), O >= 90 Premium Pricing; and
\* current_occupancy is the occupancy the rule was evaluated on.
C16_PricingRule ==
    IsPricing =>
        LET O == ret.val.current_occupancy
            rooms == InHouse
            chosen == ret.val.suggestions[1]
        IN  /\ O.d > 0 /\ O.n * TOTAL_ROOMS = 100 * rooms * O.d
            /\ Len(ret.val.suggestions) = 1
            /\ O.n < 50 * O.d =>
                   /\ chosen.strategy = "Aggressive Discount"
                   /\ chosen.action = [locals |-> 699, tourists |-> 1200]
            /\ (50 * O.d <= O.n /\ O.n < 70 * O.d) =>
                   /\ chosen.strategy = "Moderate Discount"
                   /\ chosen.action = [locals |-> 799, tourists |-> 1300]
            /\ (70 * O.d <= O.n /\ O.n < 90 * O.d) =>
                   /\ chosen.strategy = "Standard Pricing"
                   /\ chosen.action = [locals |-> 799, tourists |-> 1500]
            /\ 90 * O.d <= O.n => chosen.strategy = "Premium Pricing"

\* C17: the pricing suggestion performs no Booking Store read, and its
\* strategy, directive and occupancy are the same whatever the store contains
\* and whether or not the store can be reached.
C17_PricingIsPure ==
    IsPricing =>
        /\ ret.reads = {}
        /\ ret.val = suggest_pricing_strategy({})

C16_Witness ==
    /\ IsPricing
    /\ ReadsSucceeded
    /\ ret.val.current_occupancy = Whole(70)
    /\ ret.val.suggestions[1].strategy = "Standard Pricing"

\* C18: get_low_occupancy_alert returns an alert payload if and only if the
\* occupancy percentage of today's report is strictly below the threshold
\* (none at the threshold itself), and the payload's occupancy, threshold and
\* available_rooms are those of that report and of the configuration.
C18_LowOccupancyAlert ==
    ret.op = "get_low_occupancy_alert" =>
        LET rooms == InHouse
        IN  IF 100 * rooms < LOW_OCCUPANCY_THRESHOLD * TOTAL_ROOMS
            THEN /\ ret.val # None
                 /\ ret.val.alert
                 /\ ret.val.occupancy.d > 0
                 /\ ret.val.occupancy.n * TOTAL_ROOMS = 100 * rooms * ret.val.occupancy.d
                 /\ ret.val.threshold = 60
                 /\ ret.val.available_rooms = TOTAL_ROOMS - rooms
            ELSE ret.val = None

C18_Witness ==
    /\ ret.op = "get_low_occupancy_alert"
    /\ ReadsSucceeded
    /\ InHouse = 6
    /\ ret.val = None

\* C19: get_payment_pending_summary lists exactly the active bookings with
\* Balance > 0 (zero and negative balances are left out) in the order the
\* store returned them; count is the length of the list and total_amount the
\* sum of the listed balances.
C19_PendingPayments ==
    ret.op = "get_payment_pending_summary" =>
        LET active == get_active_bookings(today, "active_bookings" \in ret.failed)
            due == {i \in Rows(active) : active[i].Balance > 0}
            listed == ret.val.bookings
        IN  /\ Len(listed) = Cardinality(due)
            /\ \A i \in due :
                   LET k == Cardinality({j \in due : j <= i})
                   IN  /\ listed[k].booking_id = active[i].BookingID
                       /\ listed[k].balance = active[i].Balance
            /\ \A k \in Rows(listed) : listed[k].balance > 0
            /\ ret.val.count = Len(listed)
            /\ ret.val.total_amount = SumBy(listed, LAMBDA e : e.balance)

C19_Witness ==
    /\ ret.op = "get_payment_pending_summary"
    /\ ReadsSucceeded
    /\ Len(bookings_sheet) = 3
    /\ ret.val.count = 2
    /\ ret.val.total_amount = 150
    /\ ret.val.bookings[1].balance = 100
    /\ ret.val.bookings[2].balance = 50

\* The classification a cell stands for: a blank cell is a missing one
Classification(cell) == IF cell = "" THEN "UNKNOWN" ELSE cell

\* The count a tally holds under a key (0 when the key is not in it)
CountUnder(tally, key) ==
    LET at == {i \in Rows(tally) : tally[i][1] = key}
    IN  IF at = {} THEN 0 ELSE tally[CHOOSE i \in at : TRUE][2]

\* C20: analyze_guest_categories and analyze_booking_sources count every
\* active booking exactly once: under its classification value, or under
\* UNKNOWN and no other key when the classification is missing (blank in the
\* store); the counts add up to the number of active bookings.
\* Stated for the calls whose sheet read succeeded.
C20_TallyWithUnknown ==
    (ret.op \in {"analyze_guest_categories", "analyze_booking_sources"}
         /\ ReadsSucceeded) =>
        LET active == get_active_bookings(today, FALSE)
            cell(b) == IF ret.op = "analyze_guest_categories" THEN b.Category ELSE b.Source
            keys == {Classification(cell(active[i])) : i \in Rows(active)}
        IN  /\ {ret.val[k][1] : k \in Rows(ret.val)} = keys
            /\ \A key \in keys :
                   CountUnder(ret.val, key) =
                       Cardinality({i \in Rows(active) :
                                       Classification(cell(active[i])) = key})
            /\ SumBy(ret.val, LAMBDA e : e[2]) = Len(active)

IsInsights == ret.op = "get_performance_insights"

\* Place of an observation in the fixed order
Rank(kind) ==
    CASE kind = "occupancy" -> 1
      [] kind \in {"profit", "loss"} -> 2
      [] kind = "payments" -> 3
      [] kind = "category" -> 4
      [] kind = "rating" -> 5

\* C21: get_performance_insights emits occupancy status, profit/loss, pending
\* payments, dominant guest category, feedback rating in this order, the last
\* three only when there are pending payments, active bookings, feedback of
\* today; the dominant category has the greatest count, and among the
\* categories with that count it is the first met among the active bookings.
C21_InsightsOrder ==
    IsInsights =>
        LET insights == ret.val
            kinds == {insights[k].kind : k \in Rows(insights)}
            pending == get_active_bookings(today, "pending_bookings" \in ret.failed)
            active == get_active_bookings(today, "category_bookings" \in ret.failed)
            heard == SelectSeq(get_recent_feedback(FEEDBACK_LIMIT, "feedback" \in ret.failed),
                               LAMBDA f : f.Date = today)
            count(c) == Cardinality({i \in Rows(active) : active[i].Category = c})
            first(c) == CHOOSE i \in Rows(active) :
                            /\ active[i].Category = c
                            /\ \A j \in Rows(active) : active[j].Category = c => i <= j
        IN  /\ insights[1].kind = "occupancy"
            /\ insights[2].kind \in {"profit", "loss"}
            /\ \A k \in 1..(Len(insights) - 1) :
                   Rank(insights[k].kind) < Rank(insights[k + 1].kind)
            /\ "payments" \in kinds <=> \E i \in Rows(pending) : pending[i].Balance > 0
            /\ "category" \in kinds <=> active # << >>
            /\ "rating" \in kinds <=> heard # << >>
            /\ \A k \in Rows(insights) :
                   insights[k].kind = "category" =>
                       LET top == insights[k].top_category
                       IN  /\ insights[k].bookings = count(top)
                           /\ count(top) > 0
                           /\ \A i \in Rows(active) :
                                  /\ count(active[i].Category) <= count(top)
                                  /\ count(active[i].Category) = count(top) =>
                                         first(top) <= i

C21_Witness ==
    /\ IsInsights
    /\ ReadsSucceeded
    /\ Len(ret.val) = 5
    /\ ret.val[4].top_category = "LOCAL"
    /\ ret.val[4].bookings = 2
    /\ Cardinality({i \in Rows(bookings_sheet) : bookings_sheet[i].Category = "TOURIST"}) = 2

\* No bookings, expenses or feedback in the store
StoreEmpty == bookings_sheet = << >> /\ expenses_sheet = << >> /\ feedback_sheet = << >>

\* C22: on an empty store the distribution tallies are empty, the
\* pending-payment summary has count 0, total 0 and an empty list, the
\* pricing suggestion is produced for occupancy 0, and the insights
\* composition returns (the occupancy and the profit/loss observation).
C22_EmptyStoreDegrades ==
    StoreEmpty =>
        /\ ret.op \in {"analyze_guest_categories", "analyze_booking_sources"} =>
               ret.outcome = "returned" /\ ret.val = << >>
        /\ ret.op = "get_payment_pending_summary" =>
               /\ ret.outcome = "returned"
               /\ ret.val = [count |-> 0, total_amount |-> 0, bookings |-> << >>]
        /\ IsPricing =>
               /\ ret.outcome = "returned"
               /\ ret.val.current_occupancy = Zero
               /\ Len(ret.val.suggestions) = 1
               /\ ret.val.suggestions[1].strategy = "Aggressive Discount"
        /\ IsInsights =>
               /\ ret.outcome = "returned"
               /\ Len(ret.val) = 2
               /\ ret.val[1] = [kind |-> "occupancy", status |-> "Critical",
                                occupancy |-> Zero]
               /\ ret.val[2] = [kind |-> "loss", amount |-> 0]

C22_Witness ==
    /\ StoreEmpty
    /\ IsInsights
    /\ ReadsSucceeded
    /\ Len(ret.val) = 2

AggregationOps ==
    {"generate_daily_report", "get_occupancy_trend", "get_revenue_trend",
     "get_weekly_summary", "get_monthly_summary", "analyze_guest_categories",
     "analyze_booking_sources", "get_payment_pending_summary",
     "get_low_occupancy_alert", "suggest_pricing_strategy",
     "get_performance_insights"}

Occurrences(s, x) == Cardinality({i \in Rows(s) : s[i] = x})

\* C24: get_recent_feedback(limit) returns at most `limit` records of the
\* store, most recent date first, and they are the `limit` most recent ones:
\* no record left out is more recent than a record returned.  That as many
\* as min(limit, size of the store) are returned is stated for the calls
\* whose sheet read succeeded.
C24_RecentFeedback ==
    ret.op = "get_recent_feedback" =>
        LET limit == ret.arg
            returned == ret.val
        IN  /\ Len(returned) <= limit
            /\ \A k \in 1..(Len(returned) - 1) : returned[k].Date >= returned[k + 1].Date
            /\ \A k \in Rows(returned) :
                   Occurrences(returned, returned[k]) <= Occurrences(feedback_sheet, returned[k])
            /\ \A i \in Rows(feedback_sheet) :
                   Occurrences(returned, feedback_sheet[i])
                           < Occurrences(feedback_sheet, feedback_sheet[i]) =>
                       \A k \in Rows(returned) : returned[k].Date >= feedback_sheet[i].Date
            /\ ReadsSucceeded => Len(returned) = Min(limit, Len(feedback_sheet))

C24_Witness ==
    /\ ret.op = "get_recent_feedback"
    /\ ReadsSucceeded
    /\ ret.arg = 2
    /\ Len(feedback_sheet) = 3
    /\ ret.val = <<feedback_sheet[3], feedback_sheet[1]>>
    /\ feedback_sheet[3].Date > feedback_sheet[1].Date
    /\ feedback_sheet[1].Date > feedback_sheet[2].Date

\* C25: after any sequence of add_booking and update_booking calls every
\* stored booking has check_out_date > check_in_date and
\* balance = total - advance.
C25_BookingInvariants ==
    \A i \in Rows(bookings_sheet) :
        LET record == bookings_sheet[i]
        IN  /\ record.CheckOut > record.CheckIn
            /\ record.Balance = record.Total - record.Advance

\* C27: when update_booking returns False the bookings sheet is as it was;
\* when it returns True every key of `updates` that names a column has been
\* written to the row found for booking_id, the other keys are ignored and
\* no other row is modified.
C27_UpdateBooking ==
    [][ (ret'.op = "update_booking" /\ ret' # ret) =>
            LET updates == ret'.arg[2]
                row_num == ret'.row_num
            IN  /\ ~ret'.val => bookings_sheet' = bookings_sheet
                /\ ret'.val =>
                       /\ row_num \in Rows(bookings_sheet)
                       /\ bookings_sheet[row_num].BookingID = ret'.arg[1]
                       /\ Len(bookings_sheet') = Len(bookings_sheet)
                       /\ \A i \in Rows(bookings_sheet) :
                              i # row_num => bookings_sheet'[i] = bookings_sheet[i]
                       /\ bookings_sheet'[row_num] =
                              ApplyUpdates(bookings_sheet[row_num],
                                           SelectSeq(updates, LAMBDA u : u[1] \in Headers),
                                           Len(updates)).row ]_vars

\* The record's stay contains the date D
StayContains(record, D) == record.CheckIn <= D /\ D < record.CheckOut

\* C28: a booking added with checked_out = False is returned by
\* get_active_bookings(D) for every D with check_in <= D < check_out and for
\* no other D; once update_booking has set its 'Checked Out' column to true
\* it is returned for no date.  Stated for the calls whose sheet read
\* succeeded.
C28_AddedBookingIsActive ==
    (ret.op = "get_active_bookings" /\ ~ret.failed) =>
        \A i \in Rows(bookings_sheet) :
            LET record == bookings_sheet[i]
                returned == \E j \in Rows(ret.val) : ret.val[j] = record
            IN  /\ record.CheckedOut = "FALSE" =>
                       (returned <=> StayContains(record, ret.arg))
                /\ record.CheckedOut = "TRUE" => ~returned

\* The report has been returned by the read-by-read run of the call
ReportReturned == IsReport /\ ret.outcome = "returned" /\ "seen" \in DOMAIN ret

\* The active bookings of the store state the call's first read saw
SeenActive ==
    IF "active_bookings" \in ret.failed THEN << >>
    ELSE SelectSeq(ret.seen.bookings, LAMBDA record : IsActive(record, ret.arg))

\* C26: the occupied_rooms, occupancy_percentage, total_revenue,
\* advance_collected, balance_pending and average_room_rate of one
\* generate_daily_report call are all derived from the one list of active
\* bookings of the store state its first read saw, whatever writers add or
\* update while the call runs.
C26_BookingFieldsFromOneRead ==
    ReportReturned =>
        /\ ret.val.occupied_rooms = Len(SeenActive)
        /\ ret.val.occupancy_percentage =
               calculate_occupancy_percentage(Len(SeenActive), TOTAL_ROOMS)
        /\ ret.val.total_revenue = SumBy(SeenActive, LAMBDA b : b.Total)
        /\ ret.val.advance_collected = SumBy(SeenActive, LAMBDA b : b.Advance)
        /\ ret.val.balance_pending = SumBy(SeenActive, LAMBDA b : b.Balance)
        /\ IF SeenActive = << >> THEN ret.val.average_room_rate = Zero
           ELSE IsMean(ret.val.average_room_rate,
                       SumBy(SeenActive, LAMBDA b : b.Rate), Len(SeenActive))

\* A report whose booking figures are those of the first read although a
\* writer has since checked a guest out, and whose expenses and feedback
\* were recorded after that first read
C26_Witness ==
    /\ ReportReturned
    /\ ReadsSucceeded
    /\ ret.arg = today
    /\ ret.val.occupied_rooms = 1
    /\ get_active_bookings(ret.arg, FALSE) = << >>
    /\ ret.seen.expenses = << >>
    /\ ret.val.total_expenses > 0
    /\ ret.seen.feedback = << >>
    /\ ret.val.guest_feedback_count = 1

\* Number of the days of `dates` on which the record is active
DaysActive(record, dates) == Cardinality({d \in dates : IsActive(record, d)})

\* Every recorded Total counted once per day of `dates` the booking is active
CountedPerDay(dates) ==
    SumBy(bookings_sheet, LAMBDA record : DaysActive(record, dates) * record.Total)

\* The Totals of the bookings active on some day of `dates`, each once
CountedOnce(dates) ==
    SumBy(bookings_sheet,
          LAMBDA record : IF DaysActive(record, dates) >= 1 THEN record.Total ELSE 0)

\* The days of a summary, resp. of a revenue trend, whose bookings read
\* returned the rows
SummaryDaysRead == {d \in (ret.val.start_date)..(ret.val.end_date) : d \notin ret.failB}

TrendDaysRead ==
    {ret.val[k][1] : k \in {j \in Rows(ret.val) : LoopIndex(ret.arg, j) \notin ret.failed}}

\* C29: in a weekly or monthly summary, and over the points of a revenue
\* trend, a booking active on k days of the period contributes k x Total to
\* the revenue; and, the recorded totals being positive, a summary's
\* total_revenue equals the sum of the totals of the period's bookings
\* exactly when each of them is active on one day of the period only.
C29_TotalCountedPerActiveDay ==
    /\ IsSummary =>
           /\ ret.val.total_revenue = CountedPerDay(SummaryDaysRead)
           /\ (\A i \in Rows(bookings_sheet) : bookings_sheet[i].Total > 0) =>
                  ( ret.val.total_revenue = CountedOnce(SummaryDaysRead)
                    <=> \A i \in Rows(bookings_sheet) :
                            DaysActive(bookings_sheet[i], SummaryDaysRead) <= 1 )
    /\ ret.op = "get_revenue_trend" =>
           /\ \A k \in Rows(ret.val) :
                  ret.val[k][2] = CountedPerDay({ret.val[k][1]} \cap TrendDaysRead)
           /\ SumBy(ret.val, LAMBDA point : point[2]) = CountedPerDay(TrendDaysRead)

C29_Witness ==
    /\ ret.op = "get_weekly_summary"
    /\ ReadsSucceeded
    /\ \E i \in Rows(bookings_sheet) : DaysActive(bookings_sheet[i], SummaryDaysRead) = 3
    /\ \E i \in Rows(bookings_sheet) : DaysActive(bookings_sheet[i], SummaryDaysRead) = 1
    /\ ret.val.total_revenue > CountedOnce(SummaryDaysRead)
    /\ CountedOnce(SummaryDaysRead) > 0

\* A summary in which no booking is counted twice
C29_OnceOnly ==
    /\ IsSummary
    /\ ReadsSucceeded
    /\ ret.val.total_revenue = CountedOnce(SummaryDaysRead)
    /\ ret.val.total_revenue > 0

\* C30: get_available_rooms(D) returns exactly the rooms of the rooms sheet
\* whose status is available and whose number is not the room number of a
\* booking active on D (its stay contains D and it is not checked out).
\* Stated for the calls whose sheet reads succeeded.
C30_AvailableRooms ==
    (ret.op = "get_available_rooms" /\ ReadsSucceeded) =>
        LET taken == {bookings_sheet[i].RoomNumber : i \in
                         {j \in Rows(bookings_sheet) :
                             /\ StayContains(bookings_sheet[j], ret.arg)
                             /\ ~CheckedOut(bookings_sheet[j])}}
            free == {rooms_sheet[i].RoomNumber : i \in
                        {j \in Rows(rooms_sheet) :
                            /\ rooms_sheet[j].Status \in {"AVAILABLE", "Available"}
                            /\ rooms_sheet[j].RoomNumber \notin taken}}
        IN  /\ {ret.val[k] : k \in Rows(ret.val)} = free
            /\ \A k \in Rows(ret.val) : ret.val[k] \notin taken

====
